---- MODULE Spec2Model ----
(***************************************************************************)
(* Model of ezunsub.webhook: WebhookVerifier.verify_signature,             *)
(* WebhookVerifier.verify_and_parse and WebhookVerifier.extract_headers.   *)
(*                                                                         *)
(* Representation.  A Python str is a sequence of symbols, each symbol a   *)
(* TLA+ string.  In signatures, secrets and timestamp strings a symbol is  *)
(* one character.  In bodies a symbol is one JSON lexeme (the unit the     *)
(* scanner of json.loads produces): punctuation as itself, "s:<text>" the  *)
(* string literal with content <text>, "n:<digits>" a number, "w:<text>"   *)
(* a bare word that is no JSON token.  "U+XXXX" names the character with   *)
(* that code point.                                                        *)
(***************************************************************************)
EXTENDS Integers, Sequences, FiniteSets, TLC

VARIABLES secret, max_age_seconds, now, req, out, prev, other, calls

vars == <<secret, max_age_seconds, now, req, out, prev, other, calls>>

\* ------------------------------------------------------------------ bounds

\* max_age_seconds ranges over 0..MaxAge
MaxAge == 1
\* the clock advances at most MaxTicks seconds past its starting value
MaxTicks == 1
\* request timestamps lie within MaxSkew seconds of the starting clock value
MaxSkew == 3

\* ------------------------------------------------------------- characters

Digits == <<"0", "1", "2", "3", "4", "5", "6", "7", "8", "9">>

HexDigits == <<"0", "1", "2", "3", "4", "5", "6", "7", "8", "9",
               "a", "b", "c", "d", "e", "f">>

\* characters outside ASCII: e-acute, ARABIC-INDIC DIGIT ONE, a lone surrogate
NonAscii == {"U+00E9", "U+0661", "U+D800"}

\* code points str.encode() (UTF-8) refuses
Surrogates == {"U+D800"}

\* JSON lexemes of the modelled bodies
StrLexemes == {"s:event", "s:timestamp", "s:data", "s:delivery_id",
               "s:contactId", "s:emailHash", "s:test", "s:e", "s:t", "s:c",
               "s:d", "s:event timestamp data"}

NumLexemes == {"n:5"}

\* every symbol str.encode() accepts, in a fixed order: a symbol's position
\* is the byte that stands for its UTF-8 encoding
Alphabet ==
  <<"0", "1", "2", "3", "4", "5", "6", "7", "8", "9",
    "a", "b", "c", "d", "e", "f", "g", "h", "i", "k", "l", "n", "s", "v",
    "=", "-", "+", " ", "_", ".", "U+00E9", "U+0661",
    "{", "}", "[", "]", ":", ",", "null", "true", "n:5", "w:not", "w:valid",
    "w:json", "s:event", "s:timestamp", "s:data", "s:delivery_id",
    "s:contactId", "s:e", "s:t", "s:c", "s:d", "s:event timestamp data",
    "s:test", "s:emailHash">>

Range(s) == {s[i] : i \in DOMAIN s}

IndexOf(seq, x) == CHOOSE i \in DOMAIN seq : seq[i] = x

StartsWith(s, p) == Len(s) >= Len(p) /\ SubSeq(s, 1, Len(p)) = p

Abs(x) == IF x < 0 THEN -x ELSE x

\* s with the symbol at position i replaced by c
ReplaceAt(s, i, c) == [s EXCEPT ![i] = c]

\* ------------------------------------------------- f"{timestamp}" and int()

RECURSIVE FormatNat(_)
FormatNat(n) ==
  IF n < 10 THEN <<Digits[n + 1]>>
  ELSE Append(FormatNat(n \div 10), Digits[(n % 10) + 1])

\* format(timestamp, "") of a Python int: canonical decimal
FormatInt(n) == IF n < 0 THEN <<"-">> \o FormatNat(-n) ELSE FormatNat(n)

IsDigitChar(c) == c \in Range(Digits) \/ c = "U+0661"

DigitValue(c) == IF c = "U+0661" THEN 1 ELSE IndexOf(Digits, c) - 1

RECURSIVE LStrip(_)
LStrip(s) == IF s # <<>> /\ s[1] = " " THEN LStrip(Tail(s)) ELSE s

RECURSIVE RStrip(_)
RStrip(s) ==
  IF s # <<>> /\ s[Len(s)] = " " THEN RStrip(SubSeq(s, 1, Len(s) - 1)) ELSE s

RECURSIVE DigitsValue(_)
DigitsValue(ds) ==
  IF ds = <<>> THEN 0
  ELSE 10 * DigitsValue(SubSeq(ds, 1, Len(ds) - 1)) + DigitValue(ds[Len(ds)])

\* int(str): surrounding whitespace stripped, an optional sign, then decimal
\* digits (any Unicode decimal digit) with single underscores between digits
IntLiteral(s) ==
  LET t == RStrip(LStrip(s))
      signed == t # <<>> /\ t[1] \in {"+", "-"}
      body == IF signed THEN Tail(t) ELSE t
      ds == SelectSeq(body, LAMBDA c : c # "_")
      wellFormed ==
        /\ body # <<>>
        /\ \A i \in DOMAIN body : IsDigitChar(body[i]) \/ body[i] = "_"
        /\ body[1] # "_" /\ body[Len(body)] # "_"
        /\ \A i \in 1..(Len(body) - 1) : ~(body[i] = "_" /\ body[i + 1] = "_")
  IN [ok |-> wellFormed,
      value |-> IF ~wellFormed THEN 0
                ELSE IF signed /\ t[1] = "-" THEN -DigitsValue(ds)
                ELSE DigitsValue(ds)]

\* ---------------------------------------------------- encoding and HMAC

\* str.encode() raises UnicodeEncodeError on a lone surrogate
Encodable(s) == \A i \in DOMAIN s : s[i] \notin Surrogates

\* str.encode(): one byte value per symbol, injective on symbols
Encode(s) == [i \in DOMAIN s |-> IndexOf(Alphabet, s[i])]

\* hashlib.sha256: digest size in bytes
DigestSize == 32

\* the byte that separates key from message inside the keyed hash
KeyMark == 255

\* HMAC-SHA256 as an ideal keyed hash: DigestSize bytes that determine the
\* key and the message (collision-free on inputs of the modelled sizes):
\* the key bytes, a marker, the message bytes, zero padding
HmacDigest(key, msg) ==
  LET block == key \o <<KeyMark>> \o msg
  IN [i \in 1..DigestSize |-> IF i <= Len(block) THEN block[i] ELSE 0]

RECURSIVE HexOf(_)
HexOf(bytes) ==
  IF bytes = <<>> THEN <<>>
  ELSE <<HexDigits[(bytes[1] \div 16) + 1], HexDigits[(bytes[1] % 16) + 1]>>
       \o HexOf(Tail(bytes))

\* hmac.new(key, msg, hashlib.sha256).hexdigest(): lowercase hex
HexDigest(key, msg) == HexOf(HmacDigest(key, msg))

\* hmac.compare_digest on two str: TypeError unless both are ASCII
CompareDigest(a, b) ==
  IF \E i \in DOMAIN a : a[i] \in NonAscii THEN [kind |-> "raise", bool |-> FALSE]
  ELSE IF \E i \in DOMAIN b : b[i] \in NonAscii THEN [kind |-> "raise", bool |-> FALSE]
  ELSE [kind |-> "return", bool |-> (a = b)]

\* ------------------------------------------------------ verify_signature

\* "sha256="
SigPrefix == <<"s", "h", "a", "2", "5", "6", "=">>

\* the window test of verify_signature, as the condition for going on
WithinWindowStrict(clock, timestamp, maxAge) == Abs(clock - timestamp) < maxAge

WithinWindowPastOnly(clock, timestamp, maxAge) == ~(clock - timestamp > maxAge)

WithinWindow(clock, timestamp, maxAge) == ~(Abs(clock - timestamp) > maxAge)

\* message = f"{timestamp}.{body}"
SigningString(timestamp, body) == FormatInt(timestamp) \o <<".">> \o body

\* sig_value: signature[7:] when signature.startswith("sha256=")
SigValueKeepPrefix(signature) == signature

SigValue(signature) ==
  IF StartsWith(signature, SigPrefix)
  THEN SubSeq(signature, Len(SigPrefix) + 1, Len(signature))
  ELSE signature

\* the result of one call: kind is "return" or "raise"
VsReturn(b) == [kind |-> "return", bool |-> b, exc |-> ""]

VsRaise(e) == [kind |-> "raise", bool |-> FALSE, exc |-> e]

\* WebhookVerifier.verify_signature(signature, timestamp, body) on a verifier
\* with fields sec and maxAge, the clock reading clock
VerifySignatureResult(sec, maxAge, clock, signature, timestamp, body) ==
  IF ~WithinWindow(clock, timestamp, maxAge) THEN VsReturn(FALSE)
  ELSE LET message == SigningString(timestamp, body) IN
    IF ~Encodable(sec) \/ ~Encodable(message) THEN VsRaise("UnicodeEncodeError")
    ELSE LET expected == HexDigest(Encode(sec), Encode(message))
             cmp == CompareDigest(expected, SigValue(signature))
         IN IF cmp.kind = "raise" THEN VsRaise("TypeError")
            ELSE VsReturn(cmp.bool)

\* what a sender holding key signs for (timestamp, body): the bare digest
Sign(key, timestamp, body) ==
  HexDigest(Encode(key), Encode(SigningString(timestamp, body)))

\* ------------------------------------------------------------ json.loads

\* a parsed JSON value: t is its type ("str", "num", "null", "bool", "obj",
\* "arr"), s its text when it is a scalar, items its members or elements in
\* order, k the key it is stored under when it is a member of an object
Atom(t, s) == [t |-> t, s |-> s, k |-> "", items |-> <<>>]

Compound(t, items) == [t |-> t, s |-> "", k |-> "", items |-> items]

\* the content of a string literal
LexContent ==
  ("s:event" :> "event") @@ ("s:timestamp" :> "timestamp") @@
  ("s:data" :> "data") @@ ("s:delivery_id" :> "delivery_id") @@
  ("s:contactId" :> "contactId") @@ ("s:emailHash" :> "emailHash") @@
  ("s:test" :> "test") @@ ("s:e" :> "e") @@ ("s:t" :> "t") @@
  ("s:c" :> "c") @@ ("s:d" :> "d") @@
  ("s:event timestamp data" :> "event timestamp data")

ParseOk(val, next) == [ok |-> TRUE, val |-> val, next |-> next, err |-> ""]

ParseFail(err) == [ok |-> FALSE, val |-> Atom("null", ""), next |-> 0, err |-> err]

\* dict[key] = val: a repeated key keeps its place and takes the new value
DictSet(items, key, val) ==
  LET entry == [val EXCEPT !.k = key] IN
  IF \E i \in DOMAIN items : items[i].k = key
  THEN [i \in DOMAIN items |-> IF items[i].k = key THEN entry ELSE items[i]]
  ELSE Append(items, entry)

RECURSIVE ParseValue(_, _), ParseMembers(_, _, _), ParseElements(_, _, _)

ParseValue(toks, i) ==
  IF i > Len(toks) THEN ParseFail("Expecting value")
  ELSE LET tok == toks[i] IN
    CASE tok \in StrLexemes -> ParseOk(Atom("str", LexContent[tok]), i + 1)
      [] tok \in NumLexemes -> ParseOk(Atom("num", tok), i + 1)
      [] tok = "null" -> ParseOk(Atom("null", tok), i + 1)
      [] tok = "true" -> ParseOk(Atom("bool", tok), i + 1)
      [] tok = "{" ->
           IF i + 1 <= Len(toks) /\ toks[i + 1] = "}"
           THEN ParseOk(Compound("obj", <<>>), i + 2)
           ELSE ParseMembers(toks, i + 1, <<>>)
      [] tok = "[" ->
           IF i + 1 <= Len(toks) /\ toks[i + 1] = "]"
           THEN ParseOk(Compound("arr", <<>>), i + 2)
           ELSE ParseElements(toks, i + 1, <<>>)
      [] OTHER -> ParseFail("Expecting value")

ParseMembers(toks, i, acc) ==
  IF i > Len(toks) \/ toks[i] \notin StrLexemes
  THEN ParseFail("Expecting property name enclosed in double quotes")
  ELSE IF i + 1 > Len(toks) \/ toks[i + 1] # ":"
  THEN ParseFail("Expecting ':' delimiter")
  ELSE LET v == ParseValue(toks, i + 2) IN
    IF ~v.ok THEN v
    ELSE LET acc2 == DictSet(acc, LexContent[toks[i]], v.val) IN
      IF v.next <= Len(toks) /\ toks[v.next] = "}"
      THEN ParseOk(Compound("obj", acc2), v.next + 1)
      ELSE IF v.next <= Len(toks) /\ toks[v.next] = ","
      THEN ParseMembers(toks, v.next + 1, acc2)
      ELSE ParseFail("Expecting ',' delimiter")

ParseElements(toks, i, acc) ==
  LET v == ParseValue(toks, i) IN
  IF ~v.ok THEN v
  ELSE LET acc2 == Append(acc, v.val) IN
    IF v.next <= Len(toks) /\ toks[v.next] = "]"
    THEN ParseOk(Compound("arr", acc2), v.next + 1)
    ELSE IF v.next <= Len(toks) /\ toks[v.next] = ","
    THEN ParseElements(toks, v.next + 1, acc2)
    ELSE ParseFail("Expecting ',' delimiter")

\* json.loads(body): a value followed by nothing, or JSONDecodeError(err)
JsonLoads(body) ==
  LET r == ParseValue(body, 1) IN
  IF r.ok /\ r.next <= Len(body) THEN ParseFail("Extra data") ELSE r

\* key in text, for two str: substring containment
StrHas(text, key) == text = key \/ text = "event timestamp data"

\* key in data: [ok, has]; ok is FALSE when the operand is no container
\* (TypeError: argument of type ... is not iterable)
Contains(data, key) ==
  CASE data.t = "obj" ->
         [ok |-> TRUE, has |-> \E i \in DOMAIN data.items : data.items[i].k = key]
    [] data.t = "arr" ->
         [ok |-> TRUE,
          has |-> \E i \in DOMAIN data.items :
                     data.items[i].t = "str" /\ data.items[i].s = key]
    [] data.t = "str" -> [ok |-> TRUE, has |-> StrHas(data.s, key)]
    [] OTHER -> [ok |-> FALSE, has |-> FALSE]

\* data[key] of a dict that has the key, as a value of its own
Subscript(data, key) ==
  LET i == CHOOSE i \in DOMAIN data.items : data.items[i].k = key
  IN [data.items[i] EXCEPT !.k = ""]

\* ------------------------------------------------------ verify_and_parse

\* placeholder of the payload field of a result that carries none
NoPayload ==
  [event |-> Atom("null", ""), timestamp |-> Atom("null", ""),
   data |-> Atom("null", ""), delivery_id |-> ""]

\* the outcome of one call, of any of the three operations:
\*   kind      "none" (no call yet), "return" or "raise"
\*   bool      the value verify_signature returned
\*   exc, msg  the exception type and message of a raise; field the key a
\*             missing-field message names; diag the JSONDecodeError text
\*   payload   the WebhookPayload verify_and_parse returned
\*   values    the tuple extract_headers returned
\*   verified  what the verify_signature call inside verify_and_parse did:
\*             "not_called", "true", "false" or "raised"
\*   parsed    whether verify_and_parse called json.loads
BaseResult ==
  [kind |-> "none", bool |-> FALSE, exc |-> "", msg |-> "", field |-> "",
   diag |-> "", payload |-> NoPayload, values |-> <<>>,
   verified |-> "not_called", parsed |-> FALSE]

\* the top-level keys verify_and_parse requires, in the order it checks them
RequiredFields == <<"event", "timestamp", "data">>

\* if not self.verify_signature(...): raise
SignatureAcceptedAlways(vs) == vs.kind = "return"

SignatureAccepted(vs) == vs.kind = "return" /\ vs.bool

\* WebhookPayload(event=data["event"], timestamp=data["timestamp"],
\*                data=data["data"], delivery_id=delivery_id)
BuildPayloadFromBody(data, delivery_id) ==
  [event |-> Subscript(data, "event"),
   timestamp |-> Subscript(data, "timestamp"),
   data |-> Subscript(data, "data"),
   delivery_id |-> IF Contains(data, "delivery_id").has
                   THEN Subscript(data, "delivery_id").s ELSE delivery_id]

BuildPayload(data, delivery_id) ==
  [event |-> Subscript(data, "event"),
   timestamp |-> Subscript(data, "timestamp"),
   data |-> Subscript(data, "data"),
   delivery_id |-> delivery_id]

\* the three "not in" checks in order, then the construction of the payload
RECURSIVE ValidateFields(_, _, _)
ValidateFields(data, fields, delivery_id) ==
  IF fields = <<>>
  THEN IF data.t = "obj"
       THEN [BaseResult EXCEPT !.kind = "return",
                               !.payload = BuildPayload(data, delivery_id)]
       ELSE [BaseResult EXCEPT !.kind = "raise", !.exc = "TypeError",
                               !.msg = "indices must be integers"]
  ELSE LET c == Contains(data, Head(fields)) IN
    IF ~c.ok
    THEN [BaseResult EXCEPT !.kind = "raise", !.exc = "TypeError",
                            !.msg = "argument is not iterable"]
    ELSE IF ~c.has
    THEN [BaseResult EXCEPT !.kind = "raise", !.exc = "ValueError",
                            !.msg = "Missing field in payload",
                            !.field = Head(fields)]
    ELSE ValidateFields(data, Tail(fields), delivery_id)

\* the part of verify_and_parse after the signature check
ParseAndValidate(body, delivery_id) ==
  LET loaded == JsonLoads(body) IN
  IF ~loaded.ok
  THEN [BaseResult EXCEPT !.kind = "raise", !.exc = "ValueError",
                          !.msg = "Invalid JSON payload", !.diag = loaded.err,
                          !.parsed = TRUE]
  ELSE [ValidateFields(loaded.val, RequiredFields, delivery_id)
          EXCEPT !.parsed = TRUE]

\* ts = int(timestamp) if isinstance(timestamp, str) else timestamp
Coerce(timestamp) ==
  IF timestamp.kind = "str" THEN IntLiteral(timestamp.str)
  ELSE [ok |-> TRUE, value |-> timestamp.int]

\* what verify_signature did inside verify_and_parse
Seen(vs) ==
  IF vs.kind = "raise" THEN "raised" ELSE IF vs.bool THEN "true" ELSE "false"

InvalidSignature(vs) ==
  [BaseResult EXCEPT !.kind = "raise", !.exc = "ValueError",
                     !.msg = "Invalid webhook signature", !.verified = Seen(vs)]

\* the body of verify_and_parse from the signature check on; vs is what the
\* call of verify_signature did (an exception it raises goes to the caller)
ParseThenVerify(vs, body, delivery_id) ==
  IF vs.kind = "raise"
  THEN [BaseResult EXCEPT !.kind = "raise", !.exc = vs.exc, !.verified = Seen(vs)]
  ELSE LET r == [ParseAndValidate(body, delivery_id) EXCEPT !.verified = Seen(vs)]
       IN IF r.msg = "Invalid JSON payload" THEN r
          ELSE IF ~SignatureAccepted(vs) THEN InvalidSignature(vs)
          ELSE r

VerifyThenParse(vs, body, delivery_id) ==
  IF vs.kind = "raise"
  THEN [BaseResult EXCEPT !.kind = "raise", !.exc = vs.exc, !.verified = Seen(vs)]
  ELSE IF ~SignatureAccepted(vs) THEN InvalidSignature(vs)
  ELSE [ParseAndValidate(body, delivery_id) EXCEPT !.verified = Seen(vs)]

\* WebhookVerifier.verify_and_parse(signature, timestamp, body, delivery_id)
VerifyAndParseResult(sec, maxAge, clock, signature, timestamp, body, delivery_id) ==
  LET ts == Coerce(timestamp) IN
  IF ~ts.ok
  THEN [BaseResult EXCEPT !.kind = "raise", !.exc = "ValueError",
                          !.msg = "invalid literal for int() with base 10"]
  ELSE VerifyThenParse(
         VerifySignatureResult(sec, maxAge, clock, signature, ts.value, body),
         body, delivery_id)

\* ------------------------------------------------------- extract_headers

\* str.lower() on the header names of the model
LowerName ==
  ("X-Webhook-Signature" :> "x-webhook-signature") @@
  ("X-WEBHOOK-SIGNATURE" :> "x-webhook-signature") @@
  ("x-webhook-signature" :> "x-webhook-signature") @@
  ("X-Webhook-Timestamp" :> "x-webhook-timestamp") @@
  ("x-webhook-timestamp" :> "x-webhook-timestamp") @@
  ("X-Webhook-Event" :> "x-webhook-event") @@
  ("x-webhook-event" :> "x-webhook-event") @@
  ("X-Webhook-Delivery-Id" :> "x-webhook-delivery-id") @@
  ("x-webhook-delivery-id" :> "x-webhook-delivery-id") @@
  ("Content-Type" :> "content-type") @@
  ("content-type" :> "content-type")

LowerKeep(name) == name

Lower(name) == LowerName[name]

\* normalized = {k.lower(): v for k, v in headers.items()}: headers is the
\* dict in iteration order, a repeated lowercased key takes the later value
RECURSIVE Normalize(_, _)
Normalize(headers, acc) ==
  IF headers = <<>> THEN acc
  ELSE LET key == Lower(Head(headers).name)
           entry == [name |-> key, value |-> Head(headers).value]
       IN Normalize(Tail(headers),
            IF \E i \in DOMAIN acc : acc[i].name = key
            THEN [i \in DOMAIN acc |-> IF acc[i].name = key THEN entry ELSE acc[i]]
            ELSE Append(acc, entry))

\* normalized.get(key): found is FALSE for None
Get(normalized, key) ==
  IF \E i \in DOMAIN normalized : normalized[i].name = key
  THEN [found |-> TRUE,
        value |-> normalized[CHOOSE i \in DOMAIN normalized :
                               normalized[i].name = key].value]
  ELSE [found |-> FALSE, value |-> ""]

\* not x, for x a str or None
Falsy(x) == ~x.found \/ x.value = ""

\* the two "if not" checks: the message of the error raised, "" for none
MissingHeaderTimestampFirst(signature, timestamp) ==
  IF Falsy(timestamp) THEN "Missing X-Webhook-Timestamp header"
  ELSE IF Falsy(signature) THEN "Missing X-Webhook-Signature header"
  ELSE ""

MissingHeader(signature, timestamp) ==
  IF Falsy(signature) THEN "Missing X-Webhook-Signature header"
  ELSE IF Falsy(timestamp) THEN "Missing X-Webhook-Timestamp header"
  ELSE ""

\* WebhookVerifier.extract_headers(headers)
ExtractHeadersResult(headers) ==
  LET normalized == Normalize(headers, <<>>)
      signature == Get(normalized, "x-webhook-signature")
      timestamp == Get(normalized, "x-webhook-timestamp")
      event == Get(normalized, "x-webhook-event")
      delivery_id == Get(normalized, "x-webhook-delivery-id")
      missing == MissingHeader(signature, timestamp)
  IN IF missing # ""
     THEN [BaseResult EXCEPT !.kind = "raise", !.exc = "ValueError",
                             !.msg = missing]
     ELSE [BaseResult EXCEPT !.kind = "return",
             !.values = <<signature.value, timestamp.value,
                          IF Falsy(event) THEN "" ELSE event.value,
                          IF delivery_id.found THEN delivery_id.value ELSE "">>]

\* ------------------------------------------------------------ the inputs

\* delivery_id: str = ""
DefaultDeliveryId == ""

Secrets == {<<"k", "1">>, <<"k", "2">>}

\* the clock reading at the start
StartTimes == {10}

IntArg(n) == [kind |-> "int", int |-> n, str |-> <<>>]

StrArg(s) == [kind |-> "str", int |-> 0, str |-> s]

\* delivery_id left out of the call, or given
Omitted == [given |-> FALSE, value |-> ""]

Given(v) == [given |-> TRUE, value |-> v]

Request(signature, timestamp, body, delivery_id, headers) ==
  [signature |-> signature, timestamp |-> timestamp, body |-> body,
   delivery_id |-> delivery_id, headers |-> headers]

NoRequest == Request(<<>>, IntArg(0), <<>>, Omitted, <<>>)

NoCall == [op |-> "none", args |-> NoRequest, clock |-> 0, res |-> BaseResult]

\* {"event":"e","timestamp":"t","data":{}}
BodyValid ==
  <<"{", "s:event", ":", "s:e", ",", "s:timestamp", ":", "s:t", ",",
    "s:data", ":", "{", "}", "}">>

\* not valid json
BodyNotJson == <<"w:not", "w:valid", "w:json">>

SigBodies == {BodyValid, BodyNotJson, <<"U+D800">>}

\* the timestamps a request may carry when the clock starts at t0
TimestampsAround(t0) == (t0 - MaxSkew)..(t0 + MaxSkew)

\* sha256=invalid
SigInvalid == SigPrefix \o <<"i", "n", "v", "a", "l", "i", "d">>

\* the signatures tried with (timestamp, body): the digest under each key,
\* bare and prefixed, and two that are no digest
SigCandidates(timestamp, body) ==
  {SigInvalid, <<>>} \cup
  (IF Encodable(body)
   THEN {Sign(k, timestamp, body) : k \in Secrets} \cup
        {SigPrefix \o Sign(k, timestamp, body) : k \in Secrets}
   ELSE {})

SigRequests(t0) ==
  {Request(sig, IntArg(ts), b, Omitted, <<>>) :
     <<sig, ts, b>> \in
       UNION {{<<sg, t, bd>> : sg \in SigCandidates(t, bd)} :
                <<t, bd>> \in TimestampsAround(t0) \X SigBodies}}

\* the characters put in place of one character of a signature, a body, a
\* timestamp
SigTamperChars == {"f", "U+00E9"}

BodyTamperSymbols == {"s:d", "}", "U+D800"}

TimestampTamperChars == {"0", "1", "7", "-"}

\* the requests that differ from r in exactly one character of one of
\* signature, body, timestamp (an int: one character of its decimal form)
Tamperings(r) ==
  {[r EXCEPT !.signature = ReplaceAt(r.signature, i, c)] :
     <<i, c>> \in {<<j, d>> \in (DOMAIN r.signature) \X SigTamperChars :
                    r.signature[j] # d}}
  \cup
  {[r EXCEPT !.body = ReplaceAt(r.body, i, c)] :
     <<i, c>> \in {<<j, d>> \in (DOMAIN r.body) \X BodyTamperSymbols :
                    r.body[j] # d}}
  \cup
  {[r EXCEPT !.timestamp = IntArg(IntLiteral(t).value)] :
     t \in {u \in {ReplaceAt(FormatInt(r.timestamp.int), j, d) :
                     <<j, d>> \in (DOMAIN FormatInt(r.timestamp.int))
                                    \X TimestampTamperChars} :
              u # FormatInt(r.timestamp.int) /\ IntLiteral(u).ok}}

\* ----------------------------------------------------------- the actions

\* one call: its arguments, the clock reading it took and its outcome
Called(op, args, res) ==
  /\ out' = [op |-> op, args |-> args, clock |-> now, res |-> res]
  /\ prev' = out
  /\ UNCHANGED <<secret, max_age_seconds, now, other, calls>>

VsResult(r) ==
  LET vs == VerifySignatureResult(secret, max_age_seconds, now,
                                  r.signature, r.timestamp.int, r.body)
  IN [BaseResult EXCEPT !.kind = vs.kind, !.bool = vs.bool, !.exc = vs.exc]

\* verifier.verify_signature(signature, timestamp, body) on the request
VerifySignature ==
  /\ req.timestamp.kind = "int"
  /\ Called("verify_signature", req, VsResult(req))
  /\ UNCHANGED req

\* the request that just verified comes again with one character replaced
VerifySignatureTampered ==
  /\ out.op = "verify_signature" /\ out.res.kind = "return" /\ out.res.bool
  /\ out.args = req /\ out.clock = now
  /\ \E t \in Tamperings(req) :
       /\ req' = t
       /\ Called("verify_signature", t, VsResult(t))

\* time.time() moves on by a second
Tick ==
  /\ \E t0 \in StartTimes : t0 <= now /\ now < t0 + MaxTicks
  /\ now' = now + 1
  /\ UNCHANGED <<secret, max_age_seconds, req, out, prev, other, calls>>

\* the fields of a second WebhookVerifier, before one is constructed
NoVerifier == [secret |-> <<>>, max_age_seconds |-> 0]

\* the threads that call into the module
Threads == {"t1", "t2"}

\* the frame of a thread's call: pc the statement it has reached, op the
\* method, self the verifier it is called on, args the arguments, and the
\* locals ts, now (clock; reads counts the time.time() calls made),
\* expected, the outcome vs of verify_signature and the outcome res of
\* the call
IdleFrame ==
  [pc |-> "idle", op |-> "none", self |-> "verifier", args |-> NoRequest,
   ts |-> 0, clock |-> 0, reads |-> 0, expected |-> <<>>,
   vs |-> VsReturn(FALSE), res |-> BaseResult]

NoCalls == [t \in Threads |-> IdleFrame]

\* WebhookVerifier(secret, max_age_seconds), then a request arrives
InitVerifier ==
  /\ secret \in Secrets
  /\ max_age_seconds \in 0..MaxAge
  /\ now \in StartTimes
  /\ out = NoCall
  /\ prev = NoCall
  /\ other = NoVerifier
  /\ calls = NoCalls

InitSig == InitVerifier /\ req \in SigRequests(now)

NextSig == VerifySignature \/ VerifySignatureTampered \/ Tick

SpecSig == InitSig /\ [][NextSig]_vars

\* ---------------------------------------- the inputs of verify_and_parse

Member(key, val) == <<key, ":">> \o val

\* a JSON object of the given members, as lexemes
RECURSIVE Joined(_)
Joined(members) ==
  IF Len(members) = 1 THEN members[1]
  ELSE members[1] \o <<",">> \o Joined(Tail(members))

Object(members) ==
  IF members = <<>> THEN <<"{", "}">> ELSE <<"{">> \o Joined(members) \o <<"}">>

EventE == Member("s:event", <<"s:e">>)

EventTest == Member("s:event", <<"s:test">>)

TimestampT == Member("s:timestamp", <<"s:t">>)

DataEmpty == Member("s:data", <<"{", "}">>)

DataContact == Member("s:data", Object(<<Member("s:contactId", <<"s:c">>)>>))

DataNumber == Member("s:data", <<"n:5">>)

DataContactHash ==
  Member("s:data", Object(<<Member("s:contactId", <<"s:c">>),
                            Member("s:emailHash", <<"s:d">>)>>))

DeliveryD == Member("s:delivery_id", <<"s:d">>)

\* bodies that are JSON objects
ObjectBodies ==
  {Object(<<EventE, TimestampT, DataEmpty>>),
   Object(<<EventTest, TimestampT, DataContact>>),
   Object(<<EventTest, TimestampT, DataContactHash>>),
   Object(<<DataEmpty, TimestampT, EventTest>>),
   Object(<<EventE, TimestampT, DataEmpty, DeliveryD>>),
   Object(<<EventE, EventTest, TimestampT, DataEmpty>>),
   Object(<<EventE, TimestampT, DataNumber>>),
   Object(<<TimestampT, DataEmpty>>),
   Object(<<EventE, DataEmpty>>),
   Object(<<EventE, TimestampT>>),
   Object(<<DataEmpty>>),
   Object(<<DeliveryD>>),
   Object(<<>>)}

\* bodies that are JSON but no object
ScalarBodies ==
  {<<"n:5">>, <<"null">>, <<"true">>, <<"s:e">>, <<"s:event timestamp data">>,
   <<"[", "]">>, <<"[", "s:event", ",", "s:timestamp", ",", "s:data", "]">>}

\* bodies that are not JSON
BrokenBodies ==
  {BodyNotJson, <<>>, <<"{", "s:event", ":">>, <<"{", "}", "}">>,
   <<"{", "s:event", "s:e", "}">>, <<"{", "s:event", ":", "s:e", "s:t", "}">>,
   <<"{", "n:5", ":", "s:e", "}">>}

ParseBodies == ObjectBodies \cup ScalarBodies \cup BrokenBodies

\* the timestamp strings tried when the clock starts at t0: the decimal form
\* of each timestamp, other spellings int() accepts, and some it refuses
TimestampStrings(t0) ==
  {FormatInt(t) : t \in TimestampsAround(t0)} \cup
  {<<" ">> \o FormatInt(t0), FormatInt(t0) \o <<" ">>, <<"+">> \o FormatInt(t0),
   <<"0">> \o FormatInt(t0), <<"U+0661", "0">>, <<"1", "_", "0">>,
   <<"-">> \o FormatInt(t0),
   <<>>, <<"a", "b", "c">>, <<"1", ".", "5">>, <<"_", "1">>,
   <<"1", "_", "_", "0">>, <<"1", "0", "_">>}

TimestampArgs(t0) ==
  {IntArg(t) : t \in TimestampsAround(t0)} \cup
  {StrArg(s) : s \in TimestampStrings(t0)}

\* a signature header holding a character outside ASCII
SigNonAscii == SigPrefix \o <<"U+00E9">>

\* the signatures tried with a timestamp argument: those of the integer it
\* is coerced to, of t0 when it is coerced to none, and one with a character
\* outside ASCII
SigCandidatesFor(t0, timestamp, body) ==
  SigCandidates(IF Coerce(timestamp).ok THEN Coerce(timestamp).value ELSE t0,
                body) \cup {SigNonAscii}

ParseRequests(t0) ==
  {Request(x[1], x[2], x[3], x[4], <<>>) :
     x \in UNION {{<<sg, ts, bd, d>> : sg \in SigCandidatesFor(t0, ts, bd)} :
                    <<ts, bd, d>> \in
                      ({IntArg(t0), StrArg(FormatInt(t0)),
                        StrArg(FormatInt(t0 + 1))}
                         \X ParseBodies \X {Omitted, Given("delivery-123")})
                      \cup
                      (TimestampArgs(t0) \X {BodyValid, BodyNotJson}
                         \X {Omitted})}}

\* the delivery_id parameter of the call
DeliveryId(r) == IF r.delivery_id.given THEN r.delivery_id.value ELSE DefaultDeliveryId

VapResult(r) ==
  VerifyAndParseResult(secret, max_age_seconds, now, r.signature, r.timestamp,
                       r.body, DeliveryId(r))

\* verifier.verify_and_parse(signature, timestamp, body[, delivery_id])
VerifyAndParse ==
  /\ Called("verify_and_parse", req, VapResult(req))
  /\ UNCHANGED req

InitParse == InitVerifier /\ req \in ParseRequests(now)

NextParse == VerifyAndParse \/ Tick

SpecParse == InitParse /\ [][NextParse]_vars

\* ------------------------------------------- WebhookPayload accessors

\* the properties of WebhookPayload and the key of data each one reads
AccessorKey ==
  ("contact_id" :> "contactId") @@ ("link_code" :> "linkCode") @@
  ("email" :> "email") @@ ("email_hash" :> "emailHash") @@
  ("phone" :> "phone") @@ ("phone_hash" :> "phoneHash")

Accessors == DOMAIN AccessorKey

\* data.get(key): [ok, found, value]; ok is FALSE when data has no method
\* get, which only a dict has among the values json.loads produces
\* (AttributeError); found is FALSE when get returns None for an absent key
DictGet(data, key) ==
  IF data.t # "obj"
  THEN [ok |-> FALSE, found |-> FALSE, value |-> Atom("null", "")]
  ELSE IF Contains(data, key).has
       THEN [ok |-> TRUE, found |-> TRUE, value |-> Subscript(data, key)]
       ELSE [ok |-> TRUE, found |-> FALSE, value |-> Atom("null", "")]

\* payload.<name>: the outcome of reading one property; values holds the
\* value returned, and is empty for None; payload is the object afterwards
AccessorResult(payload, name) ==
  LET got == DictGet(payload.data, AccessorKey[name]) IN
  IF ~got.ok
  THEN [BaseResult EXCEPT !.kind = "raise", !.exc = "AttributeError",
                          !.msg = "object has no attribute 'get'",
                          !.payload = payload]
  ELSE [BaseResult EXCEPT !.kind = "return",
                          !.values = IF got.found THEN <<got.value>> ELSE <<>>,
                          !.payload = payload]

\* the caller holds a payload: verify_and_parse has just returned it, or a
\* property of it has just been read
HoldsPayload ==
  \/ out.op = "verify_and_parse" /\ out.res.kind = "return"
  \/ out.op \in Accessors

\* payload.contact_id, payload.link_code, ... on the payload the caller holds
ReadAccessor ==
  /\ HoldsPayload
  /\ \E name \in Accessors :
       Called(name, out.args, AccessorResult(out.res.payload, name))
  /\ UNCHANGED req

NextPayload == VerifyAndParse \/ ReadAccessor \/ Tick

SpecPayload == InitParse /\ [][NextPayload]_vars

\* ----------------------------------------- the inputs of extract_headers

Header(name, value) == [name |-> name, value |-> value]

\* the entries of one header in a mapping: none, one under some letter case,
\* or two under different letter cases with different values
Entries(names, values) ==
  {<<>>} \cup
  {<<Header(n, v)>> : <<n, v>> \in names \X values} \cup
  {<<Header(x[1], x[3]), Header(x[2], x[4])>> :
     x \in {y \in names \X names \X values \X values :
              y[1] # y[2] /\ y[3] # y[4]}}

Single(names, values) ==
  {<<>>} \cup {<<Header(n, v)>> : <<n, v>> \in names \X values}

HeaderMappings ==
  {x[1] \o x[2] \o x[3] \o x[4] \o x[5] :
     x \in Entries({"X-Webhook-Signature", "x-webhook-signature",
                    "X-WEBHOOK-SIGNATURE"}, {"", "sha256=abc123"})
           \X Entries({"X-Webhook-Timestamp", "x-webhook-timestamp"},
                      {"", "1705312800"})
           \X Single({"X-Webhook-Event", "x-webhook-event"},
                     {"", "contact.created"})
           \X Single({"X-Webhook-Delivery-Id", "x-webhook-delivery-id"},
                     {"", "delivery-123"})
           \X Single({"Content-Type"}, {"application/json"})}

HeaderRequests ==
  {Request(<<>>, IntArg(0), <<>>, Omitted, h) : h \in HeaderMappings}

\* the mappings that differ from headers in the letter case of one name
Recasings(headers) ==
  {[headers EXCEPT ![i].name = n] :
     <<i, n>> \in {<<j, m>> \in (DOMAIN headers) \X (DOMAIN LowerName) :
                    /\ LowerName[m] = LowerName[headers[j].name]
                    /\ \A k \in DOMAIN headers : headers[k].name # m}}

\* WebhookVerifier.extract_headers(headers) on the request's headers
ExtractHeaders ==
  /\ Called("extract_headers", req, ExtractHeadersResult(req.headers))
  /\ UNCHANGED req

\* the same request comes again with one header name in another letter case
ExtractHeadersRecased ==
  /\ out.op = "extract_headers" /\ out.args = req
  /\ \E h \in Recasings(req.headers) :
       /\ req' = [req EXCEPT !.headers = h]
       /\ Called("extract_headers", [req EXCEPT !.headers = h],
                 ExtractHeadersResult(h))

InitHeaders ==
  /\ secret = <<"k", "1">>
  /\ max_age_seconds = MaxAge
  /\ now \in StartTimes
  /\ out = NoCall
  /\ prev = NoCall
  /\ other = NoVerifier
  /\ calls = NoCalls
  /\ req \in HeaderRequests

NextHeaders == ExtractHeaders \/ ExtractHeadersRecased

SpecHeaders == InitHeaders /\ [][NextHeaders]_vars

\* ------------------------------------------------------ concurrent calls

\* the two verifiers threads call into: "verifier" has the fields secret and
\* max_age_seconds, "other" the fields of the record other
Verifiers == {"verifier", "other"}

\* self.secret and self.max_age_seconds as read at this moment
Fields(v) ==
  IF v = "verifier"
  THEN [secret |-> secret, max_age_seconds |-> max_age_seconds]
  ELSE other

\* the calls a thread may make when the clock starts at t0
ConcVsCalls(t0) ==
  {[op |-> "verify_signature",
    args |-> Request(x[1], IntArg(x[2]), BodyValid, Omitted, <<>>)] :
     x \in UNION {{<<Sign(k, ts, BodyValid), ts>> : k \in Secrets} :
                    ts \in {t0 - 1, t0}}}

ConcVapCalls(t0) ==
  {[op |-> "verify_and_parse",
    args |-> Request(SigPrefix \o Sign(k, t0, b), StrArg(FormatInt(t0)), b,
                     Given("delivery-123"), <<>>)] :
     <<k, b>> \in Secrets \X {BodyValid, BodyNotJson}} \cup
  {[op |-> "verify_and_parse",
    args |-> Request(SigInvalid, StrArg(<<"a", "b", "c">>), BodyValid,
                     Omitted, <<>>)]}

ConcEhCalls ==
  {[op |-> "extract_headers", args |-> Request(<<>>, IntArg(0), <<>>, Omitted, h)] :
     h \in {<<Header("X-Webhook-Signature", "sha256=abc123"),
              Header("x-webhook-timestamp", "1705312800")>>,
            <<Header("X-Webhook-Timestamp", "1705312800")>>}}

ConcCalls(t0) == ConcVsCalls(t0) \cup ConcVapCalls(t0) \cup ConcEhCalls

\* the first statement of each method
Entry(op) ==
  CASE op = "verify_signature" -> "vs_clock"
    [] op = "verify_and_parse" -> "vap_coerce"
    [] op = "extract_headers" -> "eh_body"

\* one thread moves, the others and everything shared stay
Moves(t, frame) ==
  /\ calls' = [calls EXCEPT ![t] = frame]
  /\ UNCHANGED <<secret, max_age_seconds, now, req, out, prev, other>>

\* a thread calls a method of a verifier
Start(t) ==
  /\ calls[t].pc = "idle"
  /\ \E v \in Verifiers, t0 \in StartTimes : \E c \in ConcCalls(t0) :
       /\ c.op = "extract_headers" => v = "verifier"
       /\ Moves(t, [IdleFrame EXCEPT !.pc = Entry(c.op), !.op = c.op,
                                     !.self = v, !.args = c.args])

\* ts = int(timestamp) if isinstance(timestamp, str) else timestamp
VapCoerce(t) ==
  LET f == calls[t]
      ts == Coerce(f.args.timestamp) IN
  /\ f.pc = "vap_coerce"
  /\ Moves(t, IF ts.ok
              THEN [f EXCEPT !.pc = "vs_clock", !.ts = ts.value]
              ELSE [f EXCEPT !.pc = "done",
                      !.res = [BaseResult EXCEPT
                                 !.kind = "raise", !.exc = "ValueError",
                                 !.msg = "invalid literal for int() with base 10"]])

\* now = int(time.time())
VsClock(t) ==
  LET f == calls[t] IN
  /\ f.pc = "vs_clock"
  /\ Moves(t, [f EXCEPT !.pc = "vs_window",
                        !.ts = IF f.op = "verify_signature"
                               THEN f.args.timestamp.int ELSE f.ts,
                        !.clock = now, !.reads = f.reads + 1])

\* verify_signature hands vs to its caller: the thread itself, or the
\* verify_and_parse that called it
VsLeave(f, vs) ==
  IF f.op = "verify_signature"
  THEN [f EXCEPT !.pc = "done", !.vs = vs,
                 !.res = [BaseResult EXCEPT !.kind = vs.kind, !.bool = vs.bool,
                                            !.exc = vs.exc]]
  ELSE [f EXCEPT !.pc = "vap_check", !.vs = vs]

\* the local now of the frame, as the window test reads it
WindowClockReread(f) == now

WindowClock(f) == f.clock

\* if abs(now - timestamp) > self.max_age_seconds: return False
VsWindow(t) ==
  LET f == calls[t] IN
  /\ f.pc = "vs_window"
  /\ Moves(t, IF WithinWindow(WindowClock(f), f.ts,
                              Fields(f.self).max_age_seconds)
              THEN [f EXCEPT !.pc = "vs_hmac"]
              ELSE VsLeave(f, VsReturn(FALSE)))

\* message = f"{timestamp}.{body}"; expected = hmac.new(...).hexdigest()
VsHmac(t) ==
  LET f == calls[t]
      sec == Fields(f.self).secret
      message == SigningString(f.ts, f.args.body) IN
  /\ f.pc = "vs_hmac"
  /\ Moves(t, IF ~Encodable(sec) \/ ~Encodable(message)
              THEN VsLeave(f, VsRaise("UnicodeEncodeError"))
              ELSE [f EXCEPT !.pc = "vs_compare",
                             !.expected = HexDigest(Encode(sec), Encode(message))])

\* sig_value = ...; return hmac.compare_digest(expected, sig_value)
VsCompare(t) ==
  LET f == calls[t]
      cmp == CompareDigest(f.expected, SigValue(f.args.signature)) IN
  /\ f.pc = "vs_compare"
  /\ Moves(t, VsLeave(f, IF cmp.kind = "raise" THEN VsRaise("TypeError")
                         ELSE VsReturn(cmp.bool)))

\* verify_and_parse from "if not self.verify_signature(...)" to its end
VapCheck(t) ==
  LET f == calls[t] IN
  /\ f.pc = "vap_check"
  /\ Moves(t, [f EXCEPT !.pc = "done",
                        !.res = VerifyThenParse(f.vs, f.args.body,
                                                DeliveryId(f.args))])

\* the body of extract_headers
EhBody(t) ==
  LET f == calls[t] IN
  /\ f.pc = "eh_body"
  /\ Moves(t, [f EXCEPT !.pc = "done",
                        !.res = ExtractHeadersResult(f.args.headers)])

\* two verifiers are constructed, then the threads start
InitConc ==
  /\ secret = <<"k", "1">>
  /\ max_age_seconds \in 0..MaxAge
  /\ other = [secret |-> <<"k", "2">>, max_age_seconds |-> MaxAge]
  /\ now \in StartTimes
  /\ req = NoRequest
  /\ out = NoCall
  /\ prev = NoCall
  /\ calls = NoCalls

Step(t) ==
  \/ Start(t)
  \/ VapCoerce(t)
  \/ VsClock(t)
  \/ VsWindow(t)
  \/ VsHmac(t)
  \/ VsCompare(t)
  \/ VapCheck(t)
  \/ EhBody(t)

NextConc == (\E t \in Threads : Step(t)) \/ Tick

SpecConc == InitConc /\ [][NextConc]_vars

\* ===================================================== the properties

\* the integer the call's timestamp argument stands for
TsOf(c) == Coerce(c.args.timestamp).value

\* the age of the call's timestamp at the clock reading the call took
AgeOf(c) == Abs(c.clock - TsOf(c))

\* the call's signature is the digest of its (timestamp, body) under the
\* verifier's secret, bare or prefixed
CorrectlySigned(c) ==
  /\ Encodable(c.args.body)
  /\ Len(c.args.signature) >= 2 * DigestSize
  /\ LET digest == Sign(secret, TsOf(c), c.args.body)
     IN c.args.signature = digest \/ c.args.signature = SigPrefix \o digest

Returned(c, b) == c.res.kind = "return" /\ c.res.bool = b

\* C1: a call of verify_and_parse that returns a payload has had
\* verify_signature return true in that call: its timestamp is an integer
\* within max_age_seconds of the clock reading and its signature is the
\* HMAC digest of "{timestamp}.{body}" under the secret
C1_PayloadOnlyAfterVerification ==
  (out.op = "verify_and_parse" /\ out.res.kind = "return") =>
     /\ out.res.verified = "true"
     /\ Coerce(out.args.timestamp).ok
     /\ AgeOf(out) <= max_age_seconds
     /\ CorrectlySigned(out)

C1_Witness ==
  /\ out.op = "verify_and_parse" /\ out.res.kind = "return"
  /\ out.args.timestamp.kind = "str"
  /\ AgeOf(out) = max_age_seconds /\ max_age_seconds > 0

\* C2: round trip: verify_signature returns true for the lowercase hex
\* HMAC digest of "{T}.{B}" under the secret, passed bare or with the
\* sha256= prefix, whenever |now - T| <= max_age_seconds
C2_RoundTrip ==
  (out.op = "verify_signature" /\ AgeOf(out) <= max_age_seconds
     /\ CorrectlySigned(out)) => Returned(out, TRUE)

C2_Witness ==
  /\ out.op = "verify_signature" /\ Returned(out, TRUE)
  /\ Encodable(out.args.body)
  /\ out.args.signature = Sign(secret, TsOf(out), out.args.body)
  /\ out.clock # TsOf(out)

\* C3: tamper detection: after a (signature, T, B) that verified, the same
\* triple with one character of the signature, of the body or of the
\* timestamp replaced makes verify_signature return false
C3_TamperReturnsFalse ==
  (/\ prev.op = "verify_signature" /\ Returned(prev, TRUE)
   /\ out.op = "verify_signature"
   /\ out.args \in Tamperings(prev.args)) => Returned(out, FALSE)

\* C4: replay rejection: verify_signature returns false whenever
\* |now - T| > max_age_seconds, for T in the past and in the future, whatever
\* the signature; a correctly signed request of age exactly max_age_seconds
\* verifies true
C4_ReplayRejection ==
  (out.op = "verify_signature") =>
     /\ (AgeOf(out) > max_age_seconds => Returned(out, FALSE))
     /\ (AgeOf(out) = max_age_seconds /\ CorrectlySigned(out)
           => Returned(out, TRUE))

C4_Witness ==
  /\ out.op = "verify_signature" /\ Returned(out, FALSE)
  /\ CorrectlySigned(out)
  /\ TsOf(out) = out.clock + max_age_seconds + 1

\* C5: error precedence in verify_and_parse: when verify_signature returns
\* false the call raises "Invalid webhook signature" and json.loads is never
\* called, whatever the body; "Invalid JSON payload" with the parser's
\* diagnostic is raised only when the signature verified and the body is
\* not valid JSON
C5_ErrorPrecedence ==
  (out.op = "verify_and_parse") =>
     /\ (out.res.verified = "false" =>
           /\ out.res.kind = "raise" /\ out.res.exc = "ValueError"
           /\ out.res.msg = "Invalid webhook signature"
           /\ ~out.res.parsed)
     /\ (out.res.msg = "Invalid JSON payload" =>
           /\ out.res.verified = "true"
           /\ ~JsonLoads(out.args.body).ok
           /\ out.res.diag = JsonLoads(out.args.body).err
           /\ out.res.diag # "")

C5_Witness ==
  /\ out.op = "verify_and_parse" /\ out.res.verified = "false"
  /\ ~JsonLoads(out.args.body).ok
  /\ out.res.msg = "Invalid webhook signature"
  /\ AgeOf(out) <= max_age_seconds

\* the parsed body is an object with this top-level key
HasKey(val, key) ==
  val.t = "obj" /\ \E i \in DOMAIN val.items : val.items[i].k = key

\* positions in RequiredFields of the keys the parsed body lacks
MissingKeys(val) ==
  {i \in DOMAIN RequiredFields : ~HasKey(val, RequiredFields[i])}

\* C6: for a verified body that parses as JSON and lacks some of the keys
\* event, timestamp, data, verify_and_parse raises the missing-field error
\* naming the first missing key in that order; it returns a payload only
\* if all three are present
C6_FirstMissingFieldNamed ==
  (out.op = "verify_and_parse" /\ out.res.verified = "true"
     /\ JsonLoads(out.args.body).ok) =>
     LET missing == MissingKeys(JsonLoads(out.args.body).val) IN
     /\ (missing # {} =>
           /\ out.res.kind = "raise" /\ out.res.exc = "ValueError"
           /\ out.res.msg = "Missing field in payload"
           /\ out.res.field =
                RequiredFields[CHOOSE i \in missing : \A j \in missing : i <= j])
     /\ (out.res.kind = "return" => missing = {})

\* the event names of WebhookEvent
KnownEvents ==
  {"contact.created", "contact.updated", "complaint.created",
   "complaint.updated", "link.created", "link.clicked", "export.completed",
   "test"}

\* C7: a returned payload has event, timestamp and data equal to the values
\* under those keys of the parsed body, the event unchecked, and delivery_id
\* equal to the argument of the call ("" when left out), never a value of
\* the body
C7_PayloadFields ==
  (out.op = "verify_and_parse" /\ out.res.kind = "return") =>
     LET val == JsonLoads(out.args.body).val IN
     /\ HasKey(val, "event") /\ HasKey(val, "timestamp") /\ HasKey(val, "data")
     /\ out.res.payload.event = Subscript(val, "event")
     /\ out.res.payload.timestamp = Subscript(val, "timestamp")
     /\ out.res.payload.data = Subscript(val, "data")
     /\ out.res.payload.delivery_id =
          (IF out.args.delivery_id.given THEN out.args.delivery_id.value ELSE "")

C7_Witness ==
  /\ out.op = "verify_and_parse" /\ out.res.kind = "return"
  /\ HasKey(JsonLoads(out.args.body).val, "delivery_id")
  /\ out.args.delivery_id = Given("delivery-123")
  /\ out.res.payload.delivery_id = "delivery-123"
  /\ out.res.payload.event.s \notin KnownEvents

\* the mapping has the header, under any letter case of its name
Present(headers, key) ==
  \E i \in DOMAIN headers : LowerName[headers[i].name] = key

\* the value of the header: that of its last entry in iteration order
Effective(headers, key) ==
  LET at == {i \in DOMAIN headers : LowerName[headers[i].name] = key}
  IN headers[CHOOSE i \in at : \A j \in at : j <= i].value

ValueOrEmpty(headers, key) ==
  IF Present(headers, key) THEN Effective(headers, key) ELSE ""

ExpectedTuple(headers) ==
  <<Effective(headers, "x-webhook-signature"),
    Effective(headers, "x-webhook-timestamp"),
    ValueOrEmpty(headers, "x-webhook-event"),
    ValueOrEmpty(headers, "x-webhook-delivery-id")>>

\* the two mappings differ in the letter case of header names only
SameUpToCase(g, h) ==
  /\ Len(g) = Len(h)
  /\ \A i \in DOMAIN g :
       /\ LowerName[g[i].name] = LowerName[h[i].name]
       /\ g[i].value = h[i].value

CaseInsensitive ==
  (/\ prev.op = "extract_headers" /\ out.op = "extract_headers"
   /\ SameUpToCase(prev.args.headers, out.args.headers))
     => out.res = prev.res

\* C8 as stated: for every mapping that contains x-webhook-signature and
\* x-webhook-timestamp under any letter case, extract_headers returns the
\* four values unchanged, "" for an absent event or delivery id, and the
\* letter case of the names does not change the result
C8_ExtractsWhenPresent ==
  /\ (out.op = "extract_headers"
        /\ Present(out.args.headers, "x-webhook-signature")
        /\ Present(out.args.headers, "x-webhook-timestamp")) =>
       /\ out.res.kind = "return"
       /\ out.res.values = ExpectedTuple(out.args.headers)
  /\ CaseInsensitive

\* C8 amended: the same for every mapping whose signature and timestamp
\* headers have non-empty values
C8_ExtractsWhenNonEmpty ==
  /\ (out.op = "extract_headers"
        /\ ValueOrEmpty(out.args.headers, "x-webhook-signature") # ""
        /\ ValueOrEmpty(out.args.headers, "x-webhook-timestamp") # "") =>
       /\ out.res.kind = "return"
       /\ out.res.values = ExpectedTuple(out.args.headers)
  /\ CaseInsensitive

C8_Witness ==
  /\ prev.op = "extract_headers" /\ out.op = "extract_headers"
  /\ prev.args.headers # out.args.headers
  /\ out.res.kind = "return"
  /\ \E i \in DOMAIN out.args.headers :
       out.args.headers[i].name = "X-WEBHOOK-SIGNATURE"
  /\ ~Present(out.args.headers, "x-webhook-event")
  /\ out.res.values[3] = "" /\ out.res.values[4] = "delivery-123"

MissingSignature == "Missing X-Webhook-Signature header"

MissingTimestamp == "Missing X-Webhook-Timestamp header"

\* C9 as stated: extract_headers raises a missing-header error whenever the
\* signature or the timestamp header is absent; the error names a header
\* that is absent, the signature header when both are
C9_NamesAbsentHeader ==
  (/\ out.op = "extract_headers"
   /\ \/ ~Present(out.args.headers, "x-webhook-signature")
      \/ ~Present(out.args.headers, "x-webhook-timestamp")) =>
     /\ out.res.kind = "raise" /\ out.res.exc = "ValueError"
     /\ out.res.msg \in {MissingSignature, MissingTimestamp}
     /\ (out.res.msg = MissingSignature
           => ~Present(out.args.headers, "x-webhook-signature"))
     /\ (out.res.msg = MissingTimestamp
           => ~Present(out.args.headers, "x-webhook-timestamp"))

\* C9 amended: extract_headers raises a missing-header error whenever the
\* signature or the timestamp header is absent or empty; the error names
\* the signature header when that one is absent or empty and the timestamp
\* header otherwise; the optional headers play no part
C9_NamesAbsentOrEmptyHeader ==
  (out.op = "extract_headers") =>
     LET h == out.args.headers
         expected ==
           IF ValueOrEmpty(h, "x-webhook-signature") = "" THEN MissingSignature
           ELSE IF ValueOrEmpty(h, "x-webhook-timestamp") = "" THEN MissingTimestamp
           ELSE ""
     IN /\ out.res.msg = expected
        /\ (expected # "" <=> (out.res.kind = "raise" /\ out.res.exc = "ValueError"))
        /\ (expected = "" <=> out.res.kind = "return")

C9_Witness ==
  /\ out.op = "extract_headers" /\ out.res.kind = "raise"
  /\ out.res.msg = MissingTimestamp
  /\ ~Present(out.args.headers, "x-webhook-timestamp")
  /\ Present(out.args.headers, "x-webhook-event")
  /\ Present(out.args.headers, "x-webhook-delivery-id")

\* the two calls are verify_and_parse with identical arguments, and the
\* first returned a payload
RepeatedAfterPayload ==
  /\ prev.op = "verify_and_parse" /\ out.op = "verify_and_parse"
  /\ prev.args = out.args
  /\ prev.res.kind = "return"

\* C10 as stated: a second verify_and_parse with identical inputs returns
\* a payload too, with identical event, timestamp, data and delivery_id
C10_IdempotentParse ==
  RepeatedAfterPayload =>
     /\ out.res.kind = "return"
     /\ out.res.payload = prev.res.payload

\* C10 amended: the same, for a second call whose clock reading is still
\* within max_age_seconds of the timestamp
C10_IdempotentWithinWindow ==
  (RepeatedAfterPayload /\ AgeOf(out) <= max_age_seconds) =>
     /\ out.res.kind = "return"
     /\ out.res.payload = prev.res.payload

C10_Witness ==
  /\ RepeatedAfterPayload
  /\ out.clock > prev.clock
  /\ out.res.kind = "return"
  /\ out.res.payload.data.items # <<>>

\* --------------------------------------------------------------- C13
\* the messages of the validation errors verify_and_parse raises itself
DesignatedErrors ==
  {"Invalid webhook signature", "Invalid JSON payload",
   "Missing field in payload"}

\* C13: for every input verify_and_parse either returns a WebhookPayload or
\* raises one of the designated validation errors: ValueError with "Invalid
\* webhook signature", with "Invalid JSON payload" or with the missing-field
\* message; no other failure reaches the caller, whatever the timestamp
\* string, the characters of the signature or the JSON value of the body.
C13_OnlyDesignatedFailures ==
  out.op = "verify_and_parse" =>
    \/ out.res.kind = "return"
    \/ /\ out.res.kind = "raise"
       /\ out.res.exc = "ValueError"
       /\ out.res.msg \in DesignatedErrors

\* --------------------------------------------------------------- C14
\* what the property named name is to return for the payload p: the value
\* stored in data under the property's key, none (the empty tuple) when
\* data has no such key
StoredOrNone(p, name) ==
  LET hits == {i \in DOMAIN p.data.items :
                 p.data.items[i].k = AccessorKey[name]}
  IN IF hits = {} THEN <<>>
     ELSE <<[p.data.items[CHOOSE i \in hits : TRUE] EXCEPT !.k = ""]>>

\* C14: for every WebhookPayload verify_and_parse returns, data is a
\* string-keyed mapping (a JSON object), and reading any of the six
\* accessors returns the value stored under its key, or none when the key
\* is absent; the read never fails and leaves the payload as it was.
C14_AccessorsTotal ==
  /\ (out.op = "verify_and_parse" /\ out.res.kind = "return" =>
        out.res.payload.data.t = "obj")
  /\ (out.op \in Accessors =>
        /\ out.res.kind = "return"
        /\ out.res.values = StoredOrNone(prev.res.payload, out.op)
        /\ out.res.payload = prev.res.payload)

\* --------------------------------------------------------------- C12
\* the outcome of the finished call f as a function of its arguments, the
\* fields of the verifier it was called on and clock reading clock
OutcomeOf(f, clock) ==
  LET cfg == Fields(f.self) IN
  CASE f.op = "verify_signature" ->
         LET vs == VerifySignatureResult(cfg.secret, cfg.max_age_seconds, clock,
                                         f.args.signature, f.args.timestamp.int,
                                         f.args.body)
         IN [BaseResult EXCEPT !.kind = vs.kind, !.bool = vs.bool,
                               !.exc = vs.exc]
    [] f.op = "verify_and_parse" ->
         VerifyAndParseResult(cfg.secret, cfg.max_age_seconds, clock,
                              f.args.signature, f.args.timestamp, f.args.body,
                              DeliveryId(f.args))
    [] OTHER -> ExtractHeadersResult(f.args.headers)

\* every finished call read the clock at most once and has the outcome its
\* own arguments, its verifier's fields and that one reading determine
OwnOutcome ==
  \A t \in Threads :
    calls[t].pc = "done" =>
      /\ calls[t].reads <= 1
      /\ calls[t].res = OutcomeOf(calls[t], calls[t].clock)

\* a step leaves the fields of both verifiers as they were
ConfigKept ==
  /\ secret' = secret
  /\ max_age_seconds' = max_age_seconds
  /\ other' = other

\* C12: under every interleaving of verify_signature, verify_and_parse and
\* extract_headers calls made by concurrent threads on one verifier or on
\* two, each call's outcome is the one determined by its own arguments, its
\* verifier's secret and max_age_seconds and the single clock reading the
\* call took; and no step modifies secret or max_age_seconds of a verifier.
C12_NoInterference == []OwnOutcome /\ [][ConfigKept]_vars

\* both threads called verify_signature on the same verifier; t2 read the
\* clock first and is still before its comparison when t1, which read the
\* clock a second later, has returned TRUE
C12_Witness ==
  /\ calls["t1"].pc = "done" /\ calls["t1"].op = "verify_signature"
  /\ calls["t1"].res.kind = "return" /\ calls["t1"].res.bool
  /\ calls["t2"].pc = "vs_compare" /\ calls["t2"].op = "verify_signature"
  /\ calls["t2"].self = calls["t1"].self
  /\ calls["t2"].clock < calls["t1"].clock

====
